---- MODULE Spec2Model ----
(***************************************************************************)
(* Model of src/main.js, the "Pro To-Do App": the live AppState (state),   *)
(* the undo log (undoStack), the localStorage slot (storage) and the       *)
(* handlers that mutate them.  Every handler is one action; the trailing   *)
(* saveState() of a handler is part of that action.                        *)
(*                                                                         *)
(* Representation.  Text is a sequence of one-character strings, so that   *)
(* trim() and split(',') are computed.  A date is the local calendar date  *)
(* [y, m, d] with the month 0-based as in JavaScript; NoDue stands for     *)
(* null.  A missing (undefined) order is Undef.  The marker _selected is   *)
(* the field selected, with the values "undefined", "true", "false".       *)
(* A JSON string is the record [json |-> v] of the value it encodes; a     *)
(* text that is no JSON is [bad |-> ...]; the JSON values null and 5 are   *)
(* [prim |-> "null"] and [prim |-> "5"].  An uncaught error at script top  *)
(* level is the flag crashed; an uncaught error in a listener is the field *)
(* threw of lastOp.                                                        *)
(***************************************************************************)
EXTENDS Integers, Sequences, FiniteSets, TLC

VARIABLES
  state,      \* the live AppState: [tasks, version]  (main.js line 20)
  undoStack,  \* sequence of JSON strings, newest last  (line 21)
  storage,    \* content of localStorage[STORAGE_KEY]: NoSlot or a JSON string
  uidCtr,     \* number of ids (and clock ticks) handed out so far  (line 24)
  reading,    \* texts of the files a FileReader is still reading  (line 633)
  lastOp,     \* history: the handler that ran last, its arguments and result;
              \*   mutated says that it reached saveState(true), of names the
              \*   mutating handler an undo click followed at once, and is
              \*   "again" for the import of a file right after its import,
              \*   else the listener an onload followed at once
  pre,        \* history: the live AppState before the last mutating handler
  nMut,       \* history: handlers other than undo run so far
  nUndo,      \* history: undo clicks so far
  pre11,      \* history: the live AppState before the 11th handler other than undo
  crashed,    \* the script ended with an uncaught error before line 743: no
              \*   listener is registered  (lines 116-117, 134)
  full        \* localStorage.setItem throws (quota exceeded, storage denied)

vars == <<state, undoStack, storage, uidCtr, reading, lastOp, pre, nMut, nUndo, pre11,
          crashed, full>>

----------------------------------------------------------------------------
(* Bounds of the model *)

MaxTasks == 4

MaxSteps == 3

MaxReads == 1

MaxMut == 60

MaxImportSteps == 4

(* Program constants *)

UndoCap == 50

----------------------------------------------------------------------------
(* uid and the clock *)

\* the n-th id handed out by uid(); the prefix keeps task and subtask ids apart
uid(n) == n

\* Date.now() at the n-th tick
Now(n) == n

----------------------------------------------------------------------------
(* Values *)

Undef == -1

\* an id uid() never hands out
NoId == uid(0)

NoDue == [y |-> 0, m |-> 0, d |-> 0]

NoSlot == [json |-> [tasks |-> <<>>, version |-> 0]]

DEFAULT_STATE == [tasks |-> <<>>, version |-> 1]

Date(y, m, d) == [y |-> y, m |-> m, d |-> d]

\* JavaScript's  x || 0  on an order value
OrZero(n) == IF n = Undef THEN 0 ELSE n

Max(a, b) == IF a >= b THEN a ELSE b

RECURSIVE MaxOrder(_)
\* Math.max(...tasks.map(t => t.order || 0)), for a non-empty sequence
MaxOrder(tasks) ==
  IF Len(tasks) = 1 THEN OrZero(tasks[1].order)
  ELSE Max(OrZero(tasks[1].order), MaxOrder(Tail(tasks)))

\* Array.prototype.find / findIndex: the first position holding the id, 0 if none
FindIndex(tasks, id) ==
  IF \E i \in 1..Len(tasks) : tasks[i].id = id
  THEN CHOOSE i \in 1..Len(tasks) :
         /\ tasks[i].id = id
         /\ \A j \in 1..(i-1) : tasks[j].id # id
  ELSE 0

RemoveAt(s, i) == SubSeq(s, 1, i-1) \o SubSeq(s, i+1, Len(s))

----------------------------------------------------------------------------
(* Text *)

IsSpace(c) == c = " "

RECURSIVE TrimLeft(_)
TrimLeft(s) == IF s # <<>> /\ IsSpace(Head(s)) THEN TrimLeft(Tail(s)) ELSE s

RECURSIVE TrimRight(_)
TrimRight(s) ==
  IF s # <<>> /\ IsSpace(s[Len(s)]) THEN TrimRight(SubSeq(s, 1, Len(s)-1)) ELSE s

\* String.prototype.trim
Trim(s) == TrimRight(TrimLeft(s))

RECURSIVE Split(_, _)
\* text.split(','), with cur the piece being read
Split(s, cur) ==
  IF s = <<>> THEN <<cur>>
  ELSE IF Head(s) = "," THEN <<cur>> \o Split(Tail(s), <<>>)
  ELSE Split(Tail(s), Append(cur, Head(s)))

RECURSIVE FilterNonEmpty(_)
FilterNonEmpty(ss) ==
  IF ss = <<>> THEN <<>>
  ELSE IF Head(ss) = <<>> THEN FilterNonEmpty(Tail(ss))
  ELSE <<Head(ss)>> \o FilterNonEmpty(Tail(ss))

parseTags(text) ==
  IF text = <<>> THEN <<>>
  ELSE FilterNonEmpty([i \in 1..Len(Split(text, <<>>)) |-> Trim(Split(text, <<>>)[i])])

----------------------------------------------------------------------------
(* JSON *)

\* JSON.stringify: every value the model holds is JSON-safe; an undefined
\* field is dropped and reads back as undefined.
Stringify(v) == [json |-> v]

\* JSON.parse of a string produced by JSON.stringify
Parse(s) == s.json

----------------------------------------------------------------------------
(* saveState *)

\* the cap applied with pop() in place of shift()
pushUndoStackPop(stack, st, pushUndo) ==
  IF pushUndo
  THEN LET s == Append(stack, Stringify(st))
       IN IF Len(s) > UndoCap THEN SubSeq(s, 1, Len(s) - 1) ELSE s
  ELSE stack

\* the undo log after saveState(pushUndo) with the live state st
pushUndoStack(stack, st, pushUndo) ==
  IF pushUndo
  THEN LET s == Append(stack, Stringify(st))
       IN IF Len(s) > UndoCap THEN Tail(s) ELSE s
  ELSE stack

\* saveState(pushUndo), run after state' is set; when setItem throws, the log
\* has its snapshot, the slot keeps its content and the error leaves the caller
saveState(pushUndo) ==
  /\ undoStack' = pushUndoStack(undoStack, state', pushUndo)
  /\ storage' = IF full THEN storage ELSE Stringify(state')

----------------------------------------------------------------------------
(* Dates: new Date(iso), setDate, setMonth, toISOString on calendar dates.
   setDate and setMonth work on the local calendar date; the model takes the
   local and the UTC calendar date of a due to be the same day. *)

IsLeap(y) == (y % 4 = 0 /\ y % 100 # 0) \/ y % 400 = 0

DaysInMonth(y, m) ==
  IF m = 1 THEN (IF IsLeap(y) THEN 29 ELSE 28)
  ELSE IF m \in {3, 5, 8, 10} THEN 30
  ELSE 31

RECURSIVE MakeDate(_, _, _)
\* the date JavaScript makes of (year, month, day) when month or day overflow
MakeDate(y, m, d) ==
  IF m > 11 THEN MakeDate(y + 1, m - 12, d)
  ELSE IF d > DaysInMonth(y, m) THEN MakeDate(y, m + 1, d - DaysInMonth(y, m))
  ELSE Date(y, m, d)

\* d.setDate(d.getDate() + n)
setDate(dt, n) == MakeDate(dt.y, dt.m, dt.d + n)

\* d.setMonth(d.getMonth() + n)
setMonth(dt, n) == MakeDate(dt.y, dt.m + n, dt.d)

\* the due date createNextRecurring computes
nextDue(due, recurring) ==
  IF recurring = "daily" THEN setDate(due, 1)
  ELSE IF recurring = "weekly" THEN setDate(due, 7)
  ELSE IF recurring = "monthly" THEN setMonth(due, 1)
  ELSE due

----------------------------------------------------------------------------
(* Tasks *)

\* the order of a new task taken as the number of tasks
newOrderLen(tasks) == Len(tasks)

\* data.f || d: the field, or the default when data has no such field
Field(data, f, d) == IF f \in DOMAIN data THEN data[f] ELSE d

\* the order addTask and createNextRecurring give a new task
newOrder(tasks) == IF Len(tasks) > 0 THEN MaxOrder(tasks) + 1 ELSE 0

\* the task object addTask(data) builds as the n-th uid is drawn
newTask(tasks, data, n) ==
  [ id        |-> uid(n),
    title     |-> Trim(Field(data, "title", <<>>)),
    notes     |-> Trim(Field(data, "notes", <<>>)),
    completed |-> FALSE,
    due       |-> Field(data, "due", NoDue),
    priority  |-> IF Field(data, "priority", "") = "" THEN "medium" ELSE data.priority,
    tags      |-> Field(data, "tags", <<>>),
    subtasks  |-> Field(data, "subtasks", <<>>),
    createdAt |-> Now(n),
    order     |-> newOrder(tasks),
    recurring |-> Field(data, "recurring", ""),
    archived  |-> FALSE,
    selected  |-> "undefined" ]

\* state.tasks after addTask(data)
addTaskTo(tasks, data, n) == Append(tasks, newTask(tasks, data, n))

\* the successor createNextRecurring(task) builds; it draws uid n for the task
\* and the following ones for the subtasks
successor(tasks, task, n) ==
  [ id        |-> uid(n),
    title     |-> task.title,
    notes     |-> task.notes,
    completed |-> FALSE,
    due       |-> nextDue(task.due, task.recurring),
    priority  |-> task.priority,
    tags      |-> task.tags,
    subtasks  |-> [i \in 1..Len(task.subtasks) |->
                     [id |-> uid(n + i), title |-> task.subtasks[i].title,
                      completed |-> FALSE]],
    createdAt |-> Now(n + Len(task.subtasks)),
    order     |-> newOrder(tasks),
    recurring |-> task.recurring,
    archived  |-> FALSE,
    selected  |-> "undefined" ]

\* createNextRecurring without the test of task.due
createsNextAlways(task) == task.recurring # ""

\* createNextRecurring(task) goes past its first line
createsNext(task) == task.recurring # "" /\ task.due # NoDue

\* state.tasks after createNextRecurring(task)
createNextRecurring(tasks, task, n) ==
  IF createsNext(task) THEN Append(tasks, successor(tasks, task, n)) ELSE tasks

\* uids createNextRecurring(task) draws
uidsOfNext(task) == IF createsNext(task) THEN 1 + Len(task.subtasks) ELSE 0

----------------------------------------------------------------------------
(* Start of the script: loadState, "State init", initializeSampleIfEmpty *)

\* the literal sample tasks of initializeSampleIfEmpty (texts abbreviated to
\* one character); the second is due 24 hours after the start
Tomorrow == Date(2025, 0, 31)

sample(n) ==
  << [ title |-> <<"W">>, notes |-> <<"s">>, due |-> NoDue, priority |-> "medium",
       tags |-> << <<"w">> >>, recurring |-> "", subtasks |-> <<>> ],
     [ title |-> <<"P">>, notes |-> <<"e">>, due |-> Tomorrow, priority |-> "high",
       tags |-> << <<"f">> >>, recurring |-> "monthly",
       subtasks |-> << [id |-> uid(n), title |-> <<"C">>, completed |-> FALSE] >> ] >>

\* a slot written by an earlier session: an archived, completed task and a
\* daily task due on the last day of a year
SavedTasks ==
  << [ id |-> 91, title |-> <<"x">>, notes |-> <<>>, completed |-> TRUE,
       due |-> NoDue, priority |-> "low", tags |-> <<>>, subtasks |-> <<>>,
       createdAt |-> 91, order |-> 0, recurring |-> "", archived |-> TRUE,
       selected |-> "undefined" ],
     [ id |-> 92, title |-> <<"y">>, notes |-> <<>>, completed |-> FALSE,
       due |-> Date(2024, 11, 31), priority |-> "medium", tags |-> <<>>,
       subtasks |-> <<>>, createdAt |-> 92, order |-> 1, recurring |-> "daily",
       archived |-> FALSE, selected |-> "undefined" ] >>

SlotContents == { NoSlot, Stringify([tasks |-> SavedTasks, version |-> 1]) }

\* a text JSON.parse rejects
BadText == [bad |-> <<"{">>]

\* the JSON values null and 5, which are no objects
JsonNull == [prim |-> "null"]

JsonNumber == [prim |-> "5"]

\* slots that hold something else than a saved AppState: a text that is no
\* JSON, the texts null and 5, and an object without tasks and version
CorruptSlots ==
  { BadText, Stringify(JsonNull), Stringify(JsonNumber), Stringify([theme |-> "dark"]) }

\* JSON.parse(text) returns
Parses(text) == "json" \in DOMAIN text

\* v.tasks is truthy (an empty array is)
HasTasks(v) == "prim" \notin DOMAIN v /\ "tasks" \in DOMAIN v

\* v after v.tasks = []
WithTasks(v) == [f \in DOMAIN v \cup {"tasks"} |-> IF f = "tasks" THEN <<>> ELSE v[f]]

\* loadState() on the slot: the default for an absent slot, and for a text
\* JSON.parse rejects; else whatever the text encodes
loadState(slot) ==
  IF slot = NoSlot \/ ~Parses(slot) THEN DEFAULT_STATE ELSE Parse(slot)

NoOp == [op |-> "init", id |-> NoId, id2 |-> NoId, ret |-> "none",
         mutated |-> FALSE, of |-> "", title |-> <<>>, threw |-> FALSE, arg |-> <<>>]

\* threw: an error left the listener uncaught, which is the case when it
\* reached a saveState whose setItem throws; arg: the form, patch or file
Op(name, a, b, r, m) ==
  [op |-> name, id |-> a, id2 |-> b, ret |-> r, mutated |-> m, of |-> "", title |-> <<>>,
   threw |-> m /\ full, arg |-> <<>>]

\* the script from its first line to its last, on the slot found at the start
\* Line 116 reads state.tasks: a TypeError when state is null.  On a number the
\* read gives undefined, the assignment of line 116 has no effect (or throws, in
\* strict mode), and render() throws at state.tasks.filter (line 134); the
\* slot holds the text of the number in both cases.  saveState(false) of line
\* 117 throws when setItem does.  Each of these errors ends the script.
Boot(slot) ==
  LET loaded == loadState(slot)
      start  == IF HasTasks(loaded) THEN loaded ELSE WithTasks(loaded)
      one    == [start EXCEPT !.tasks = addTaskTo(@, sample(1)[1], 2)]
      two    == [one EXCEPT !.tasks = addTaskTo(@, sample(1)[2], 3)]
  IN IF "prim" \in DOMAIN loaded
     THEN /\ state = loaded
          /\ undoStack = <<>>
          /\ storage = slot
          /\ uidCtr = 0
          /\ crashed = TRUE
     ELSE IF full
     THEN /\ state = start
          /\ undoStack = <<>>
          /\ storage = slot
          /\ uidCtr = 0
          /\ crashed = TRUE
     ELSE IF Len(start.tasks) > 0
     THEN /\ state = start
          /\ undoStack = <<>>
          /\ storage = Stringify(start)
          /\ uidCtr = 0
          /\ crashed = FALSE
     ELSE /\ state = two
          /\ undoStack =
               pushUndoStack(pushUndoStack(<<>>, one, TRUE), two, TRUE)
          /\ storage = Stringify(two)
          /\ uidCtr = 3
          /\ crashed = FALSE

\* lastOp.arg of the first state is the slot the script found
HistInit(slot) ==
  /\ reading = <<>>
  /\ lastOp = [NoOp EXCEPT !.arg = slot]
  /\ pre = state
  /\ nMut = 0
  /\ nUndo = 0
  /\ pre11 = DEFAULT_STATE

Init == full = FALSE /\ \E slot \in SlotContents : Boot(slot) /\ HistInit(slot)

----------------------------------------------------------------------------
(* Handlers *)

Ids == {state.tasks[i].id : i \in 1..Len(state.tasks)}

Form(t, n, d, p, g, r) ==
  [title |-> t, notes |-> n, due |-> d, priority |-> p, tagsText |-> g, recurring |-> r]

\* what the user may have typed into the task form
Forms ==
  { Form(<<"a">>, <<>>, NoDue, "medium", <<>>, "daily"),
    Form(<<>>, <<"n">>, NoDue, "medium", <<>>, ""),
    Form(<<" ">>, <<>>, Date(2025, 0, 1), "high", <<>>, "daily"),
    Form(<<" ", "b">>, <<"n", " ">>, Date(2025, 0, 1), "high", <<"x", ",", " ", "y">>, "monthly"),
    Form(<<"c">>, <<>>, Date(2024, 1, 26), "low", <<>>, "weekly") }

\* the listener without its test of the title
submitUnchecked(form) ==
  /\ state' = [state EXCEPT !.tasks = addTaskTo(@,
                 [ title |-> Trim(form.title), notes |-> Trim(form.notes),
                   due |-> form.due, priority |-> form.priority,
                   tags |-> parseTags(form.tagsText), recurring |-> form.recurring,
                   subtasks |-> <<>> ], uidCtr + 1)]
  /\ uidCtr' = uidCtr + 1
  /\ UNCHANGED reading
  /\ saveState(TRUE)
  /\ lastOp' = [Op("create", uid(uidCtr + 1), NoId, "task", TRUE)
                 EXCEPT !.title = form.title, !.arg = form]
  /\ pre' = state

\* taskForm 'submit' listener, with addTask
submit(form) ==
  IF Trim(form.title) = <<>>
  THEN /\ UNCHANGED <<state, undoStack, storage, uidCtr, reading>>
       /\ lastOp' = [Op("create", NoId, NoId, "refused", FALSE) EXCEPT !.title = form.title]
       /\ pre' = state
  ELSE submitUnchecked(form)

\* addTask(data) called as initializeSampleIfEmpty calls it
addTask(data) ==
  /\ state' = [state EXCEPT !.tasks = addTaskTo(@, data, uidCtr + 1)]
  /\ uidCtr' = uidCtr + 1
  /\ UNCHANGED reading
  /\ saveState(TRUE)
  /\ lastOp' = [Op("addTask", uid(uidCtr + 1), NoId, "task", TRUE) EXCEPT !.arg = data]
  /\ pre' = state

\* the listener ending in saveState(true) instead of its own setItem
undoPushing ==
  /\ IF undoStack = <<>>
     THEN UNCHANGED <<state, undoStack, storage>>
     ELSE /\ state' = Parse(undoStack[Len(undoStack)])
          /\ undoStack' = pushUndoStack(SubSeq(undoStack, 1, Len(undoStack) - 1), state', TRUE)
          /\ storage' = Stringify(state')
  /\ lastOp' = [ Op("undo", NoId, NoId, IF undoStack = <<>> THEN "nothing" ELSE "undone", FALSE)
                 EXCEPT !.of = IF lastOp.mutated THEN lastOp.op ELSE "" ]
  /\ UNCHANGED <<uidCtr, reading, pre>>

\* undoBtn 'click' listener
undo ==
  /\ IF undoStack = <<>>
     THEN UNCHANGED <<state, undoStack, storage>>
     ELSE /\ state' = Parse(undoStack[Len(undoStack)])
          /\ undoStack' = SubSeq(undoStack, 1, Len(undoStack) - 1)
          /\ storage' = IF full THEN storage ELSE Stringify(state')
  /\ lastOp' = [ Op("undo", NoId, NoId, IF undoStack = <<>> THEN "nothing"
                              ELSE IF full THEN "failed" ELSE "undone", FALSE)
                 EXCEPT !.of = IF lastOp.mutated THEN lastOp.op ELSE "" ]
  /\ UNCHANGED <<uidCtr, reading, pre>>

\* Object.assign that copies nothing
AssignNot(t, patch) == t

\* Object.assign(t, patch): the fields the patch names are overwritten
Assign(t, patch) == [f \in DOMAIN t |-> IF f \in DOMAIN patch THEN patch[f] ELSE t[f]]

\* a patch of the edit form that also names archived
editPatchUnarchive(form) ==
  [ title |-> Trim(form.title), notes |-> Trim(form.notes), due |-> form.due,
    priority |-> form.priority, tags |-> parseTags(form.tagsText),
    recurring |-> form.recurring, archived |-> FALSE ]

\* the patch the editForm 'submit' listener builds from the edit form
editPatch(form) ==
  [ title |-> Trim(form.title), notes |-> Trim(form.notes), due |-> form.due,
    priority |-> form.priority, tags |-> parseTags(form.tagsText),
    recurring |-> form.recurring ]

\* what the user may have typed into the edit form
EditForms ==
  { Form(<<"a", " ">>, <<>>, NoDue, "low", <<"x">>, ""),
    Form(<<"P">>, <<"e">>, Date(2025, 0, 31), "high", <<"f">>, "weekly") }

\* updateTask without its early return
updateTaskAlways(id, patch) ==
  LET i == FindIndex(state.tasks, id)
  IN /\ state' = IF i = 0 THEN state
                 ELSE [state EXCEPT !.tasks[i] = Assign(@, patch)]
     /\ saveState(TRUE)
     /\ lastOp' = [Op("update", id, NoId, IF i = 0 THEN "null" ELSE "task", TRUE)
                    EXCEPT !.arg = patch]
     /\ pre' = state
     /\ UNCHANGED <<uidCtr, reading>>

\* updateTask(id, patch)
updateTask(id, patch) ==
  LET i == FindIndex(state.tasks, id)
  IN IF i = 0
     THEN /\ UNCHANGED <<state, undoStack, storage, uidCtr, reading>>
          /\ lastOp' = [Op("update", id, NoId, "null", FALSE) EXCEPT !.arg = patch]
          /\ pre' = state
     ELSE /\ state' = [state EXCEPT !.tasks[i] = Assign(@, patch)]
          /\ saveState(TRUE)
          /\ lastOp' = [Op("update", id, NoId, "task", TRUE) EXCEPT !.arg = patch]
          /\ pre' = state
          /\ UNCHANGED <<uidCtr, reading>>

\* deleteTask(id)
deleteTask(id) ==
  LET i == FindIndex(state.tasks, id)
  IN IF i = 0
     THEN /\ UNCHANGED <<state, undoStack, storage, uidCtr, reading>>
          /\ lastOp' = Op("delete", id, NoId, "false", FALSE)
          /\ pre' = state
     ELSE /\ state' = [state EXCEPT !.tasks = RemoveAt(@, i)]
          /\ saveState(TRUE)
          /\ lastOp' = Op("delete", id, NoId, "true", TRUE)
          /\ pre' = state
          /\ UNCHANGED <<uidCtr, reading>>

\* toggleComplete(id), with createNextRecurring
toggleComplete(id) ==
  LET i       == FindIndex(state.tasks, id)
      flipped == [state.tasks EXCEPT ![i].completed = ~@]
      t       == flipped[i]
      next    == t.completed /\ t.recurring # ""
  IN IF i = 0
     THEN /\ UNCHANGED <<state, undoStack, storage, uidCtr, reading>>
          /\ lastOp' = Op("toggle", id, NoId, "none", FALSE)
          /\ pre' = state
     ELSE /\ state' = [state EXCEPT !.tasks =
                         IF next THEN createNextRecurring(flipped, t, uidCtr + 1)
                         ELSE flipped]
          /\ uidCtr' = IF next THEN uidCtr + uidsOfNext(t) ELSE uidCtr
          /\ UNCHANGED reading
          /\ saveState(TRUE)
          /\ lastOp' = Op("toggle", id, NoId, "none", TRUE)
          /\ pre' = state

\* toggleMenu(task, anchor) answered "tag:" + text, task being state.tasks[i]
menuTag(i, text) ==
  LET name == Trim(text)
      tags == state.tasks[i].tags
  IN IF name = <<>>
     THEN /\ UNCHANGED <<state, undoStack, storage, uidCtr, reading>>
          /\ lastOp' = Op("tag", state.tasks[i].id, NoId, "none", FALSE)
          /\ pre' = state
     ELSE /\ state' = [state EXCEPT !.tasks[i].tags =
                         IF \E k \in 1..Len(tags) : tags[k] = name THEN tags
                         ELSE Append(tags, name)]
          /\ saveState(TRUE)
          /\ lastOp' = Op("tag", state.tasks[i].id, NoId, "none", TRUE)
          /\ pre' = state
          /\ UNCHANGED <<uidCtr, reading>>

\* toggleMenu(task, anchor) answered "archive"
menuArchive(i) ==
  /\ state' = [state EXCEPT !.tasks[i].archived = TRUE]
  /\ saveState(TRUE)
  /\ lastOp' = Op("archive", state.tasks[i].id, NoId, "none", TRUE)
  /\ pre' = state
  /\ UNCHANGED <<uidCtr, reading>>

\* toggleMenu(task, anchor) answered "duplicate"
menuDuplicate(i) ==
  /\ state' = [state EXCEPT !.tasks = Append(@,
                 [state.tasks[i] EXCEPT !.id = uid(uidCtr + 1),
                                        !.createdAt = Now(uidCtr + 1)])]
  /\ uidCtr' = uidCtr + 1
  /\ UNCHANGED reading
  /\ saveState(TRUE)
  /\ lastOp' = Op("duplicate", state.tasks[i].id, uid(uidCtr + 1), "none", TRUE)
  /\ pre' = state

RECURSIVE InsertByOrder(_, _)
\* x put behind every task of the sorted s whose (order || 0) is not larger
InsertByOrder(s, x) ==
  IF s = <<>> THEN <<x>>
  ELSE IF OrZero(s[Len(s)].order) <= OrZero(x.order) THEN Append(s, x)
  ELSE Append(InsertByOrder(SubSeq(s, 1, Len(s) - 1), x), s[Len(s)])

RECURSIVE SortByOrder(_)
\* tasks.sort((a,b) => (a.order||0) - (b.order||0)), a stable sort
SortByOrder(s) ==
  IF s = <<>> THEN <<>>
  ELSE InsertByOrder(SortByOrder(SubSeq(s, 1, Len(s) - 1)), s[Len(s)])

\* reorder without its last renumbering
RenumberNot(s) == s

\* .forEach((t,i) => t.order = i)
Renumber(s) == [i \in 1..Len(s) |-> [s[i] EXCEPT !.order = i - 1]]

\* state.tasks after the body of reorder, di and ti the positions found
reordered(tasks, di, ti) ==
  LET targetOrder == OrZero(tasks[ti].order)
      bumped == [i \in 1..Len(tasks) |->
                   IF tasks[i].order # Undef /\ tasks[i].order >= targetOrder
                   THEN [tasks[i] EXCEPT !.order = @ + 1] ELSE tasks[i]]
      placed == [bumped EXCEPT ![di].order = targetOrder]
  IN Renumber(SortByOrder(placed))

\* reorder(draggedId, targetId)
reorder(draggedId, targetId) ==
  LET di == FindIndex(state.tasks, draggedId)
      ti == FindIndex(state.tasks, targetId)
  IN IF di = 0 \/ ti = 0
     THEN /\ UNCHANGED <<state, undoStack, storage, uidCtr, reading>>
          /\ lastOp' = Op("reorder", draggedId, targetId, "none", FALSE)
          /\ pre' = state
     ELSE /\ state' = [state EXCEPT !.tasks = reordered(@, di, ti)]
          /\ saveState(TRUE)
          /\ lastOp' = Op("reorder", draggedId, targetId, "none", TRUE)
          /\ pre' = state
          /\ UNCHANGED <<uidCtr, reading>>

\* resetBtn 'click' listener, the question confirmed
reset ==
  /\ state' = DEFAULT_STATE
  /\ saveState(TRUE)
  /\ lastOp' = Op("reset", NoId, NoId, "none", TRUE)
  /\ pre' = state
  /\ UNCHANGED <<uidCtr, reading>>

----------------------------------------------------------------------------
(* Selection, bulk listeners, subtasks *)

\* the tasks the list shows: those of the last render().  A listener that
\* failed or threw has changed state.tasks without a render.
Rendered == IF lastOp.ret = "failed" \/ lastOp.threw THEN pre.tasks ELSE state.tasks

\* the filter of render() with the view 'all' and an empty search box
Shown(t, showArchived, showCompleted) ==
  /\ showArchived \/ ~t.archived
  /\ showCompleted \/ ~t.completed

\* rank[p] of render(): undefined for a priority that is no key of the table
rank(p) ==
  CASE p = "high" -> 0
    [] p = "medium" -> 1
    [] p = "low" -> 2
    [] OTHER -> Undef

\* rank[p] || 1: 0 and undefined are falsy
rankOrOne(p) == IF rank(p) = 0 \/ rank(p) = Undef THEN 1 ELSE rank(p)

RECURSIVE InsertByPriority(_, _)
\* x put behind every task of the sorted s whose key is not larger
InsertByPriority(s, x) ==
  IF s = <<>> THEN <<x>>
  ELSE IF rankOrOne(s[Len(s)].priority) <= rankOrOne(x.priority) THEN Append(s, x)
  ELSE Append(InsertByPriority(SubSeq(s, 1, Len(s) - 1), x), s[Len(s)])

RECURSIVE SortByPriority(_)
\* list.sort((a,b) => (rank[a.priority] || 1) - (rank[b.priority] || 1)), stable
SortByPriority(s) ==
  IF s = <<>> THEN <<>>
  ELSE InsertByPriority(SortByPriority(SubSeq(s, 1, Len(s) - 1)), s[Len(s)])

\* the list render() produces from the live state when sortBy is 'priority'
priorityView(showArchived, showCompleted) ==
  SortByPriority(SelectSeq(state.tasks, LAMBDA t : Shown(t, showArchived, showCompleted)))

\* selectAllBtn 'click' listener: it sets _selected and calls render() only
selectAll(showArchived, showCompleted) ==
  LET allVisibleIds == { Rendered[i].id : i \in
                           { j \in 1..Len(Rendered) :
                               Shown(Rendered[j], showArchived, showCompleted) } }
      found       == { FindIndex(state.tasks, id) : id \in allVisibleIds } \ {0}
      anySelected == \E i \in found : state.tasks[i].selected = "true"
  IN /\ state' = [state EXCEPT !.tasks =
                    [i \in 1..Len(state.tasks) |->
                       IF i \in found
                       THEN [state.tasks[i] EXCEPT
                               !.selected = IF anySelected THEN "false" ELSE "true"]
                       ELSE state.tasks[i]]]
     /\ lastOp' = Op("selectAll", NoId, NoId, "none", FALSE)
     /\ pre' = state
     /\ UNCHANGED <<undoStack, storage, uidCtr, reading>>

RECURSIVE spliceEach(_, _)
\* forEach over picked: findIndex by id in what is left, splice(idx, 1)
spliceEach(tasks, picked) ==
  IF picked = <<>> THEN tasks
  ELSE LET idx == FindIndex(tasks, Head(picked).id)
       IN spliceEach(IF idx > 0 THEN RemoveAt(tasks, idx) ELSE tasks, Tail(picked))

IsDone(t) == t.completed /\ ~t.archived

\* clearCompletedBtn 'click' listener, the question confirmed
clearCompleted ==
  LET completed == SelectSeq(state.tasks, IsDone)
  IN IF completed = <<>>
     THEN /\ UNCHANGED <<state, undoStack, storage, uidCtr, reading>>
          /\ lastOp' = Op("clearCompleted", NoId, NoId, "none", FALSE)
          /\ pre' = state
     ELSE /\ state' = [state EXCEPT !.tasks = spliceEach(@, completed)]
          /\ saveState(TRUE)
          /\ lastOp' = Op("clearCompleted", NoId, NoId, "cleared", TRUE)
          /\ pre' = state
          /\ UNCHANGED <<uidCtr, reading>>

\* archiveCompletedBtn 'click' listener
archiveCompleted ==
  IF SelectSeq(state.tasks, IsDone) = <<>>
  THEN /\ UNCHANGED <<state, undoStack, storage, uidCtr, reading>>
       /\ lastOp' = Op("archiveCompleted", NoId, NoId, "none", FALSE)
       /\ pre' = state
  ELSE /\ state' = [state EXCEPT !.tasks =
                      [i \in 1..Len(state.tasks) |->
                         IF IsDone(state.tasks[i])
                         THEN [state.tasks[i] EXCEPT !.archived = TRUE]
                         ELSE state.tasks[i]]]
       /\ saveState(TRUE)
       /\ lastOp' = Op("archiveCompleted", NoId, NoId, "archived", TRUE)
       /\ pre' = state
       /\ UNCHANGED <<uidCtr, reading>>

IsSelected(t) == t.selected = "true"

\* deleteSelectedBtn 'click' listener, the question confirmed
deleteSelected ==
  LET selected == SelectSeq(state.tasks, IsSelected)
  IN IF selected = <<>>
     THEN /\ UNCHANGED <<state, undoStack, storage, uidCtr, reading>>
          /\ lastOp' = Op("deleteSelected", NoId, NoId, "none", FALSE)
          /\ pre' = state
     ELSE /\ state' = [state EXCEPT !.tasks = spliceEach(@, selected)]
          /\ saveState(TRUE)
          /\ lastOp' = Op("deleteSelected", NoId, NoId, "deleted", TRUE)
          /\ pre' = state
          /\ UNCHANGED <<uidCtr, reading>>

\* 'change' listener of the checkbox of subtask j of state.tasks[i]
subtaskToggle(i, j) ==
  /\ state' = [state EXCEPT !.tasks[i].subtasks[j].completed = ~@]
  /\ saveState(TRUE)
  /\ lastOp' = Op("subtask", state.tasks[i].id, state.tasks[i].subtasks[j].id, "none", TRUE)
  /\ pre' = state
  /\ UNCHANGED <<uidCtr, reading>>

----------------------------------------------------------------------------
(* Import *)

Foreign(id, title, order) ==
  [ id |-> id, title |-> title, notes |-> <<>>, completed |-> FALSE,
    due |-> NoDue, priority |-> "medium", tags |-> <<>>, subtasks |-> <<>>,
    createdAt |-> id, order |-> order, recurring |-> "", archived |-> FALSE,
    selected |-> "undefined" ]

\* texts of the files the user may pick: one lists an id twice; one lists the
\* id of the second sample task and a task without an order
GoodFiles ==
  { Stringify([tasks |-> << Foreign(81, <<"i">>, 0), Foreign(81, <<"j">>, 1) >>,
               version |-> 1]),
    Stringify([tasks |-> << Foreign(3, <<"k">>, 0), Foreign(82, <<"l">>, Undef) >>,
               version |-> 1]) }

\* malformed files: an object without a tasks field; an object whose tasks
\* field is the number 5, written [tasksNum |-> 5]; a list whose second entry
\* is null
BadFiles ==
  { Stringify([version |-> 1]),
    Stringify([tasksNum |-> 5, version |-> 1]),
    Stringify([tasks |-> << Foreign(83, <<"m">>, 2), JsonNull >>, version |-> 1]) }

Files == GoodFiles \cup BadFiles

\* importInput 'change' listener: reader.readAsText(file)
importChange(text) ==
  /\ reading' = Append(reading, text)
  /\ lastOp' = [Op("choose", NoId, NoId, "none", FALSE)
                 EXCEPT !.arg = text,
                        !.of = IF lastOp.op = "import" /\ lastOp.ret = "imported"
                                  /\ lastOp.arg = text
                               THEN "import" ELSE ""]
  /\ pre' = state
  /\ UNCHANGED <<state, undoStack, storage, uidCtr>>

\* t.id throws: t is null
IsNull(t) == "prim" \in DOMAIN t

\* the loop without its test of existingIds
mergeAll(tasks, existingIds, list) ==
  tasks \o SelectSeq(list, LAMBDA t : ~IsNull(t))

RECURSIVE merge(_, _, _)
\* the loop of reader.onload: existingIds is computed once, before the loop;
\* the loop ends at the first entry on which t.id throws
merge(tasks, existingIds, list) ==
  IF list = <<>> THEN tasks
  ELSE IF IsNull(Head(list)) THEN tasks
  ELSE IF Head(list).id \in existingIds
       THEN merge(tasks, existingIds, Tail(list))
       ELSE merge(Append(tasks, Head(list)), existingIds, Tail(list))

\* the try block of reader.onload throws before saveState: the text is no JSON,
\* it is null, its tasks field cannot be iterated, or an entry is null
importThrows(text) ==
  \/ ~Parses(text)
  \/ "prim" \in DOMAIN Parse(text)
  \/ "tasksNum" \in DOMAIN Parse(text)
  \/ /\ "tasks" \in DOMAIN Parse(text)
     /\ \E i \in 1..Len(Parse(text).tasks) : IsNull(Parse(text).tasks[i])

\* !imported.tasks
importInvalid(text) ==
  /\ Parses(text)
  /\ "prim" \notin DOMAIN Parse(text)
  /\ DOMAIN Parse(text) \cap {"tasks", "tasksNum"} = {}

\* reader.onload merging into the collection as it was before the listener
\* that ran last, as if it had been captured when the file was chosen
importLoadStale(k) ==
  LET text == reading[k]
      old  == {pre.tasks[i].id : i \in 1..Len(pre.tasks)}
  IN /\ IF importInvalid(text) \/ importThrows(text)
        THEN /\ UNCHANGED <<state, undoStack, storage>>
             /\ lastOp' = [Op("import", NoId, NoId, "failed", FALSE) EXCEPT !.arg = text]
        ELSE /\ state' = [pre EXCEPT !.tasks = merge(@, old, Parse(text).tasks)]
             /\ saveState(TRUE)
             /\ lastOp' = [Op("import", NoId, NoId, "imported", TRUE)
                           EXCEPT !.arg = text, !.threw = FALSE,
                                  !.of = IF lastOp.mutated \/ lastOp.op = "undo"
                                         THEN lastOp.op ELSE ""]
     /\ reading' = RemoveAt(reading, k)
     /\ pre' = state
     /\ UNCHANGED uidCtr

\* reader.onload of the k-th pending read.  The tasks pushed before an entry
\* throws stay in state.tasks; the catch block reports and saves nothing.
importLoad(k) ==
  LET text == reading[k]
  IN /\ IF importInvalid(text)
        THEN /\ UNCHANGED <<state, undoStack, storage>>
             /\ lastOp' = [Op("import", NoId, NoId, "invalid", FALSE) EXCEPT !.arg = text]
        ELSE IF importThrows(text)
        THEN /\ state' = IF Parses(text) /\ "tasks" \in DOMAIN Parse(text)
                         THEN [state EXCEPT !.tasks = merge(@, Ids, Parse(text).tasks)]
                         ELSE state
             /\ UNCHANGED <<undoStack, storage>>
             /\ lastOp' = [Op("import", NoId, NoId, "failed", FALSE) EXCEPT !.arg = text]
        ELSE /\ state' = [state EXCEPT !.tasks = merge(@, Ids, Parse(text).tasks)]
             /\ saveState(TRUE)
             /\ lastOp' = [Op("import", NoId, NoId, IF full THEN "failed" ELSE "imported", TRUE)
                           EXCEPT !.arg = text, !.threw = FALSE,
                                  !.of = IF lastOp.op = "choose" /\ lastOp.of = "import"
                                            /\ lastOp.arg = text
                                         THEN "again"
                                         ELSE IF lastOp.mutated \/ lastOp.op = "undo"
                                         THEN lastOp.op ELSE ""]
     /\ reading' = RemoveAt(reading, k)
     /\ pre' = state
     /\ UNCHANGED uidCtr

----------------------------------------------------------------------------
(* Specification *)

\* the history of a step
Count ==
  /\ nMut' = IF lastOp'.op = "undo" THEN nMut ELSE nMut + 1
  /\ nUndo' = IF lastOp'.op = "undo" THEN nUndo + 1 ELSE nUndo
  /\ pre11' = IF lastOp'.op # "undo" /\ nMut = MaxMut - UndoCap THEN state ELSE pre11
  /\ UNCHANGED <<crashed, full>>

\* the part of the unbounded program the model explores: MaxSteps listener
\* runs, MaxTasks tasks, MaxReads files being read
CanStep == ~crashed /\ nMut + nUndo < MaxSteps

Bounded ==
  /\ Len(state'.tasks) <= MaxTasks
  /\ Len(reading') <= MaxReads

\* an id no task has
Unknown == NoId

Submit == CanStep /\ (\E form \in Forms : submit(form)) /\ Count /\ Bounded

EditSubmit ==
  /\ CanStep
  /\ \E id \in Ids \cup {Unknown}, form \in EditForms : updateTask(id, editPatch(form))
  /\ Count /\ Bounded

Delete == CanStep /\ (\E id \in Ids \cup {Unknown} : deleteTask(id)) /\ Count /\ Bounded

Toggle == CanStep /\ (\E id \in Ids \cup {Unknown} : toggleComplete(id)) /\ Count /\ Bounded

MenuTag ==
  /\ CanStep
  /\ \E i \in 1..Len(state.tasks), text \in {<<" ">>, <<"x">>} : menuTag(i, text)
  /\ Count /\ Bounded

MenuArchive == CanStep /\ (\E i \in 1..Len(state.tasks) : menuArchive(i)) /\ Count /\ Bounded

MenuDuplicate == CanStep /\ (\E i \in 1..Len(state.tasks) : menuDuplicate(i)) /\ Count /\ Bounded

Drop == CanStep /\ (\E d, t \in Ids \cup {Unknown} : reorder(d, t)) /\ Count /\ Bounded

ImportChange == CanStep /\ (\E text \in GoodFiles : importChange(text)) /\ Count /\ Bounded

ImportLoad == CanStep /\ (\E k \in 1..Len(reading) : importLoad(k)) /\ Count /\ Bounded

Reset == CanStep /\ reset /\ Count /\ Bounded

Undo == CanStep /\ undo /\ Count /\ Bounded

SelectAll ==
  /\ CanStep
  /\ \E showArchived, showCompleted \in BOOLEAN : selectAll(showArchived, showCompleted)
  /\ Count /\ Bounded

ClearCompleted == CanStep /\ clearCompleted /\ Count /\ Bounded

ArchiveCompleted == CanStep /\ archiveCompleted /\ Count /\ Bounded

DeleteSelected == CanStep /\ deleteSelected /\ Count /\ Bounded

SubtaskToggle ==
  /\ CanStep
  /\ \E i \in 1..Len(state.tasks) :
       \E j \in 1..Len(state.tasks[i].subtasks) : subtaskToggle(i, j)
  /\ Count /\ Bounded

Next ==
  \/ Submit
  \/ EditSubmit
  \/ Delete
  \/ Toggle
  \/ MenuTag
  \/ MenuArchive
  \/ MenuDuplicate
  \/ Drop
  \/ ImportChange
  \/ ImportLoad
  \/ Reset
  \/ Undo
  \/ SelectAll
  \/ ClearCompleted
  \/ ArchiveCompleted
  \/ DeleteSelected
  \/ SubtaskToggle

Spec == Init /\ [][Next]_vars

(* Imports in succession: MaxImportSteps listener runs among choosing a
   file, its onload, a delete and a create. *)

CanImport == ~crashed /\ nMut + nUndo < MaxImportSteps

ImpChoose == CanImport /\ (\E text \in Files : importChange(text)) /\ Count /\ Bounded

ImpLoad == CanImport /\ (\E k \in 1..Len(reading) : importLoad(k)) /\ Count /\ Bounded

ImpDelete == CanImport /\ (\E id \in Ids : deleteTask(id)) /\ Count /\ Bounded

ImpSubmit ==
  /\ CanImport
  /\ submit(Form(<<"a">>, <<>>, NoDue, "medium", <<>>, "daily"))
  /\ Count /\ Bounded

NextImport == ImpChoose \/ ImpLoad \/ ImpDelete \/ ImpSubmit

SpecImport == Init /\ [][NextImport]_vars

(* updateTask called with any patch, those no listener builds included. *)

Patches ==
  { [title |-> <<"z">>, completed |-> TRUE],
    [order |-> 7],
    [id |-> uid(77), createdAt |-> Now(0)] }

UpdateAny ==
  /\ CanStep
  /\ \E id \in Ids \cup {Unknown}, patch \in Patches : updateTask(id, patch)
  /\ Count /\ Bounded

NextUpdate == UpdateAny \/ EditSubmit \/ Submit \/ Toggle \/ MenuDuplicate \/ Undo

SpecUpdate == Init /\ [][NextUpdate]_vars

(* addTask called with data that leaves fields out, among the listeners
   that change orders and the archived flag. *)

Datas ==
  { [title |-> <<"d">>],
    [title |-> <<"e">>, priority |-> "low", tags |-> << <<"t">> >>,
     due |-> Date(2025, 0, 1), recurring |-> "daily"] }

AddTask == CanStep /\ (\E data \in Datas : addTask(data)) /\ Count /\ Bounded

NextCreate ==
  \/ AddTask
  \/ Submit
  \/ Toggle
  \/ MenuArchive
  \/ Delete
  \/ ImportChange
  \/ ImportLoad

SpecCreate == Init /\ [][NextCreate]_vars

(* Storage whose writes fail: from the start, or from some moment on. *)

InitQuota ==
  /\ full \in BOOLEAN
  /\ \E slot \in SlotContents : Boot(slot) /\ HistInit(slot)

\* the quota is reached, or the user denies storage to the page
Fill ==
  /\ CanStep
  /\ ~full
  /\ full' = TRUE
  /\ UNCHANGED <<state, undoStack, storage, uidCtr, reading, lastOp, pre, nMut, nUndo,
                 pre11, crashed>>

NextQuota == Next \/ Fill

SpecQuota == InitQuota /\ [][NextQuota]_vars

(* Start on any slot content, a damaged one included. *)

InitLoad ==
  /\ full = FALSE
  /\ \E slot \in SlotContents \cup CorruptSlots : Boot(slot) /\ HistInit(slot)

SpecLoad == InitLoad /\ [][Next]_vars

(* The capacity scenario: MaxMut mutations from an empty undo log, then undo
   clicks.  The mutation is free at the steps of Window and a toggle elsewhere. *)

InitCap ==
  /\ full = FALSE
  /\ Boot(Stringify([tasks |-> SavedTasks, version |-> 1]))
  /\ HistInit(Stringify([tasks |-> SavedTasks, version |-> 1]))

Window == {0, MaxMut - UndoCap, MaxMut - 1}

CapToggle == nMut < MaxMut /\ nUndo = 0 /\ toggleComplete(91) /\ Count

CapTag == nMut \in Window /\ nUndo = 0 /\ menuTag(2, <<"x">>) /\ Count

CapEdit ==
  /\ nMut \in Window
  /\ nUndo = 0
  /\ updateTask(92, editPatch(Form(<<"a", " ">>, <<>>, NoDue, "low", <<"x">>, "")))
  /\ Count

CapUndo == nMut = MaxMut /\ nUndo <= UndoCap /\ undo /\ Count

NextCap == CapToggle \/ CapTag \/ CapEdit \/ CapUndo

SpecCap == InitCap /\ [][NextCap]_vars

----------------------------------------------------------------------------
(* Properties *)

IdSeq(tasks) == [i \in 1..Len(tasks) |-> tasks[i].id]

IdSet(tasks) == {tasks[i].id : i \in 1..Len(tasks)}

Blank(text) == \A k \in 1..Len(text) : text[k] = " "

LeapsBefore(y) == ((y - 1) \div 4) - ((y - 1) \div 100) + ((y - 1) \div 400)

RECURSIVE DaysBeforeMonth(_, _)
DaysBeforeMonth(y, m) ==
  IF m = 0 THEN 0 ELSE DaysInMonth(y, m - 1) + DaysBeforeMonth(y, m - 1)

\* the number of the day in the calendar
DayNum(dt) == 365 * dt.y + LeapsBefore(dt.y) + DaysBeforeMonth(dt.y, dt.m) + dt.d

MutOps == {"create", "update", "delete", "toggle", "reorder", "archive"}

\* C1: an undo click right after one mutating operation (create, update,
\* delete, toggleComplete, reorder, archive) leaves the live AppState equal
\* to the state before that operation.
C1_UndoRoundTrip ==
  (lastOp.op = "undo" /\ lastOp.of \in MutOps) => state = pre

\* C2: after MaxMut (60) mutations from an empty undo log, UndoCap (50) undo
\* clicks leave the live AppState equal to the state before the 11th mutation,
\* and the 51st click finds nothing to undo and changes nothing.
C2_UndoCapacity ==
  /\ (nMut = MaxMut /\ nUndo >= UndoCap) => state = pre11
  /\ (nMut = MaxMut /\ nUndo = UndoCap + 1) =>
        /\ lastOp.ret = "nothing"
        /\ undoStack = <<>>
        /\ storage = Stringify(pre11)

\* C3: the undo log never holds more than UndoCap (50) snapshots, and a push
\* onto a full log drops the oldest snapshot and keeps the others in order.
C3_UndoLogBounded ==
  /\ [](Len(undoStack) <= UndoCap)
  /\ [][(lastOp'.mutated /\ Len(undoStack) = UndoCap) =>
          /\ Len(undoStack') = UndoCap
          /\ SubSeq(undoStack', 1, UndoCap - 1) = Tail(undoStack)
          /\ undoStack'[UndoCap] = Stringify(state')]_vars

C3_Witness ==
  /\ nMut > UndoCap
  /\ nUndo = 0
  /\ Len(undoStack) = UndoCap
  /\ undoStack[1] # undoStack[2]

\* C4: the ids of the tasks of the live AppState are pairwise distinct.
C4_UniqueIds ==
  \A i, j \in 1..Len(state.tasks) :
     i # j => state.tasks[i].id # state.tasks[j].id

C6_ReorderNoOp ==
  [][(/\ lastOp'.op = "reorder"
      /\ \/ lastOp'.id \notin IdSet(state.tasks)
         \/ lastOp'.id2 \notin IdSet(state.tasks)
         \/ lastOp'.id = lastOp'.id2)
     => UNCHANGED <<state, undoStack, storage>>]_vars

\* C7: toggleComplete(id) on a known id appends exactly one task, with a new
\* id, when it takes the task from incomplete to complete and the task has a
\* recurring and a due; otherwise it appends none; update, reorder and archive
\* keep the set of tasks, and undo draws no new id.
C7_RecurrenceTrigger ==
  [][ /\ (lastOp'.op = "toggle" /\ lastOp'.id \in IdSet(state.tasks)) =>
           LET t == state.tasks[FindIndex(state.tasks, lastOp'.id)]
           IN IF ~t.completed /\ t.recurring # "" /\ t.due # NoDue
              THEN /\ Len(state'.tasks) = Len(state.tasks) + 1
                   /\ SubSeq(IdSeq(state'.tasks), 1, Len(state.tasks)) = IdSeq(state.tasks)
                   /\ state'.tasks[Len(state'.tasks)].id \notin IdSet(state.tasks)
                   /\ state'.tasks[Len(state'.tasks)].id > uidCtr
              ELSE IdSeq(state'.tasks) = IdSeq(state.tasks)
      /\ lastOp'.op \in {"update", "archive"} => IdSeq(state'.tasks) = IdSeq(state.tasks)
      /\ lastOp'.op = "reorder" =>
           /\ Len(state'.tasks) = Len(state.tasks)
           /\ IdSet(state'.tasks) = IdSet(state.tasks)
      /\ lastOp'.op = "undo" => uidCtr' = uidCtr ]_vars

\* the second completion of the second sample task: two successors
C7_Witness ==
  /\ lastOp.op = "toggle"
  /\ nMut = 3
  /\ Len(state.tasks) = 4
  /\ state.tasks[2].completed
  /\ state.tasks[3].title = state.tasks[2].title
  /\ state.tasks[4].title = state.tasks[2].title
  /\ state.tasks[3].id # state.tasks[4].id

\* C8: the successor of a completed recurring task T is due one day (daily),
\* seven days (weekly) or one calendar month (monthly: in the month right
\* after T's, on T's day of the month when that month has it) after T, copies
\* title, notes, priority, recurring and tags, copies the subtasks with
\* completed reset, and is incomplete, not archived and has a new id.
C8_SuccessorValue ==
  (lastOp.op = "toggle" /\ lastOp.id \in IdSet(pre.tasks)) =>
     LET T == pre.tasks[FindIndex(pre.tasks, lastOp.id)]
         s == state.tasks[Len(state.tasks)]
     IN (~T.completed /\ T.recurring # "" /\ T.due # NoDue) =>
          /\ Len(state.tasks) = Len(pre.tasks) + 1
          /\ T.recurring = "daily" => DayNum(s.due) = DayNum(T.due) + 1
          /\ T.recurring = "weekly" => DayNum(s.due) = DayNum(T.due) + 7
          /\ T.recurring = "monthly" =>
                /\ s.due.m = (T.due.m + 1) % 12
                /\ s.due.y = IF T.due.m = 11 THEN T.due.y + 1 ELSE T.due.y
                /\ T.due.d <= DaysInMonth(s.due.y, s.due.m) => s.due.d = T.due.d
          /\ s.title = T.title /\ s.notes = T.notes /\ s.priority = T.priority
          /\ s.recurring = T.recurring /\ s.tags = T.tags
          /\ Len(s.subtasks) = Len(T.subtasks)
          /\ \A k \in 1..Len(s.subtasks) :
                /\ s.subtasks[k].title = T.subtasks[k].title
                /\ s.subtasks[k].completed = FALSE
          /\ s.completed = FALSE /\ s.archived = FALSE
          /\ s.id \notin IdSet(pre.tasks)

\* C9: a create whose title is empty or only white space changes neither the
\* tasks nor the undo log nor the slot.
C9_BlankTitleRefused ==
  [][(lastOp'.op = "create" /\ Blank(lastOp'.title))
     => UNCHANGED <<state, undoStack, storage>>]_vars

C9_Witness == lastOp.op = "create" /\ lastOp.title = <<" ">> /\ Len(undoStack) > 0

\* C10: update, delete and toggleComplete with an id no task has return null,
\* false and nothing, and change neither the tasks nor the undo log nor the slot.
C10_NotFoundNoOp ==
  [][(lastOp'.op \in {"update", "delete", "toggle"} /\ lastOp'.id \notin IdSet(state.tasks))
     => /\ UNCHANGED <<state, undoStack, storage>>
        /\ lastOp'.op = "update" => lastOp'.ret = "null"
        /\ lastOp'.op = "delete" => lastOp'.ret = "false"
        /\ lastOp'.op = "toggle" => lastOp'.ret = "none"]_vars

C10_Witness ==
  /\ lastOp.op \in {"update", "delete", "toggle"}
  /\ lastOp.id \notin IdSet(pre.tasks)
  /\ Len(pre.tasks) > 0
  /\ Len(undoStack) > 0

\* C11: when the script starts on a slot that is absent, is no JSON, or holds
\* JSON of another shape than a saved AppState, no error is raised and the
\* live state is the default {tasks: [], version: 1} - which, the collection
\* being empty, the first-run seeding then fills with the two sample tasks.
C11_LoadResilience ==
  (lastOp.op = "init" /\ lastOp.arg \in CorruptSlots \cup {NoSlot})
    => /\ ~crashed
       /\ DOMAIN state = {"tasks", "version"}
       /\ state.version = 1
       /\ IdSeq(state.tasks) = <<uid(2), uid(3)>>

\* a file the import must reject: no tasks field, a tasks field that is no
\* sequence, or a sequence with an entry that is no task record
Malformed(text) ==
  \/ "tasks" \notin DOMAIN text.json
  \/ \E i \in 1..Len(text.json.tasks) : "id" \notin DOMAIN text.json.tasks[i]

\* C12: importing a malformed file adds no task of the file and leaves the
\* live state, the undo log and the slot exactly as they were.
C12_MalformedImportRejected ==
  [][(lastOp'.op = "import" /\ Malformed(lastOp'.arg))
       => UNCHANGED <<state, undoStack, storage>>]_vars

\* the entries of the file whose id no task of the collection has
FreshOf(text, tasks) ==
  SelectSeq(text.json.tasks, LAMBDA t : t.id \notin IdSet(tasks))

\* C13: the import of a well-formed file appends exactly the tasks of the
\* file whose id no live task has, in the order of the file, and leaves the
\* tasks that were there as they were; the import of the same file a second
\* time in succession leaves the collection unchanged.
C13_ImportMergeIdempotent ==
  [][(lastOp'.op = "import" /\ ~Malformed(lastOp'.arg))
       => /\ state'.tasks = state.tasks \o FreshOf(lastOp'.arg, state.tasks)
          /\ lastOp'.of = "again" => state'.tasks = state.tasks]_vars

\* a file that brought new tasks has been imported twice in succession
C13_Witness ==
  /\ lastOp.op = "import"
  /\ lastOp.of = "again"
  /\ IdSet(lastOp.arg.json.tasks) \cap IdSet(state.tasks) # {}
  /\ Len(state.tasks) > 2

\* C14: whenever a listener has changed the live AppState - create, update,
\* delete, toggleComplete, reorder, archive, duplicate, add-tag, subtask
\* toggle, bulk clear, archive and delete, import, reset, undo, select-all -
\* the slot holds exactly the serialization of the live AppState.
C14_PersistedAfterMutation ==
  [][state' # state => storage' = Stringify(state')]_vars

\* C15: a storage write that fails, during a listener that mutates or during
\* startup, lets no error escape: the script runs to its end and registers
\* its listeners, and no listener ends with an uncaught error.
C15_WriteFailureNonFatal == ~crashed /\ ~lastOp.threw

\* the rank the priority sort is to give: high first, low last, anything
\* else with medium
Rank3(p) == IF p = "high" THEN 0 ELSE IF p = "low" THEN 2 ELSE 1

\* C16: in the list sorted by priority no task stands behind a task of a
\* lower rank: every high task precedes every medium task (and every task of
\* an unknown priority), and these precede every low task.
C16_PrioritySort ==
  \A showArchived, showCompleted \in BOOLEAN :
    LET v == priorityView(showArchived, showCompleted)
    IN \A i, j \in 1..Len(v) : i < j => Rank3(v[i].priority) <= Rank3(v[j].priority)

C18_UndoSingleDirection ==
  [][lastOp'.op = "undo"
       => /\ nUndo' = nUndo + 1
          /\ Len(undoStack') <= Len(undoStack)
          /\ IF undoStack = <<>>
             THEN UNCHANGED <<state, undoStack, storage>> /\ lastOp'.ret = "nothing"
             ELSE /\ undoStack' = SubSeq(undoStack, 1, Len(undoStack) - 1)
                  /\ Stringify(state') = undoStack[Len(undoStack)]
                  /\ storage' = undoStack[Len(undoStack)]
                  /\ lastOp'.ret = "undone"]_vars

\* two undo clicks have emptied the first-run log and a third found it empty
C18_Witness ==
  /\ lastOp.op = "undo"
  /\ lastOp.ret = "nothing"
  /\ nUndo = 3
  /\ undoStack = <<>>

\* the ids of the tasks other than a and b, in the order of the sequence
OtherIds(tasks, a, b) ==
  IdSeq(SelectSeq(tasks, LAMBDA t : t.id # a /\ t.id # b))

\* C19: after reorder(draggedId, targetId) with two known, distinct ids the
\* dragged task stands immediately before the target task in the sequence
\* sorted by order, and the other tasks follow one another as they did in the
\* sequence sorted by order before - whatever the order values were.  (Stated
\* for collections in which no id occurs twice.)
C19_ReorderPlacement ==
  [][(/\ lastOp'.op = "reorder"
      /\ lastOp'.mutated
      /\ lastOp'.id # lastOp'.id2
      /\ Cardinality(IdSet(state.tasks)) = Len(state.tasks))
       => LET after == SortByOrder(state'.tasks)
          IN /\ FindIndex(after, lastOp'.id) + 1 = FindIndex(after, lastOp'.id2)
             /\ OtherIds(after, lastOp'.id, lastOp'.id2)
                  = OtherIds(SortByOrder(state.tasks), lastOp'.id, lastOp'.id2)]_vars

\* a create, or a toggle that scheduled a successor, has appended a task
Appended ==
  /\ \/ lastOp'.op \in {"create", "addTask"} /\ lastOp'.ret = "task"
     \/ lastOp'.op = "toggle" /\ lastOp'.mutated
  /\ Len(state'.tasks) = Len(state.tasks) + 1

\* n is one more than the largest (order || 0) of the tasks at the indices of I
OneMoreThan(n, tasks, I) ==
  /\ \A i \in I : OrZero(tasks[i].order) < n
  /\ \E i \in I : OrZero(tasks[i].order) + 1 = n

\* priority, tags, completed and archived of the task addTask(data) appended
Defaults(new, op) ==
  /\ ~new.completed
  /\ ~new.archived
  /\ op.op = "create" => new.priority = op.arg.priority
  /\ op.op = "addTask"
       => /\ new.priority = IF "priority" \in DOMAIN op.arg THEN op.arg.priority ELSE "medium"
          /\ new.tags = IF "tags" \in DOMAIN op.arg THEN op.arg.tags ELSE <<>>

\* C20 as stated: the order of a created task, and of a recurrence successor,
\* is one more than the largest order among the non-archived tasks; priority
\* defaults to medium, tags to empty, archived and completed to false.
C20_OrderAmongActive ==
  [][(Appended /\ \E i \in 1..Len(state.tasks) : ~state.tasks[i].archived)
       => LET new == state'.tasks[Len(state'.tasks)]
          IN /\ OneMoreThan(new.order, state.tasks,
                            {i \in 1..Len(state.tasks) : ~state.tasks[i].archived})
             /\ Defaults(new, lastOp')]_vars

\* C20: the order of a created task, and of a recurrence successor, is one
\* more than the largest order among all tasks, archived ones included (a
\* missing order counting as 0), and 0 when there is no task; priority
\* defaults to medium, tags to empty, archived and completed are false.
C20_OrderAmongAll ==
  [][Appended
       => LET new == state'.tasks[Len(state'.tasks)]
          IN /\ IF state.tasks = <<>> THEN new.order = 0
                ELSE OneMoreThan(new.order, state.tasks, 1..Len(state.tasks))
             /\ Defaults(new, lastOp')]_vars

\* addTask, given a title only, has appended a task while the largest order
\* belonged to an archived task
C20_Witness ==
  /\ lastOp.op = "addTask"
  /\ DOMAIN lastOp.arg = {"title"}
  /\ Len(state.tasks) = Len(pre.tasks) + 1
  /\ \E i \in 1..Len(pre.tasks) :
       /\ pre.tasks[i].archived
       /\ \A k \in 1..Len(pre.tasks) :
            ~pre.tasks[k].archived => OrZero(pre.tasks[k].order) < OrZero(pre.tasks[i].order)
  /\ state.tasks[Len(state.tasks)].priority = "medium"

\* C21: when the read of a chosen file completes after another listener has
\* run - create, update, delete, toggle, reorder, reset, undo, ... - the
\* merge works on the live collection of that moment: every task that is live
\* then stays, unaltered and in place, the rest of the AppState stays, and
\* every task the import adds is an entry of the file; so no task created in
\* between is lost and no task deleted in between comes back unless the file
\* lists it.
C21_ImportInterleaving ==
  [][(lastOp'.op = "import" /\ (lastOp.mutated \/ lastOp.op = "undo"))
       => /\ Len(state'.tasks) >= Len(state.tasks)
          /\ SubSeq(state'.tasks, 1, Len(state.tasks)) = state.tasks
          /\ [state' EXCEPT !.tasks = state.tasks] = state
          /\ \A i \in (Len(state.tasks) + 1)..Len(state'.tasks) :
               /\ state'.tasks[i].id \notin IdSet(state.tasks)
               /\ \E k \in 1..Len(lastOp'.arg.json.tasks) :
                    state'.tasks[i] = lastOp'.arg.json.tasks[k]]_vars

\* a file was chosen, a task was created, then the read completed: the
\* created task is there and the file has added a task
C21_Witness ==
  /\ lastOp.op = "import"
  /\ lastOp.of = "create"
  /\ Len(state.tasks) > Len(pre.tasks)
  /\ \E i \in 1..Len(pre.tasks) : state.tasks[i].id = uid(uidCtr)

\* no two tasks of the collection have the same order value
DistinctOrders(tasks) ==
  \A i, j \in 1..Len(tasks) : i # j => tasks[i].order # tasks[j].order

\* C22: a create, duplicate, toggleComplete, reorder, update, delete or
\* archive that starts with pairwise distinct order values ends with pairwise
\* distinct order values (an undo brings back an earlier collection, an
\* import is excluded).
C22_OrdersDistinct ==
  [][(/\ lastOp'.op \in {"create", "duplicate", "toggle", "reorder", "update",
                          "delete", "archive"}
      /\ DistinctOrders(state.tasks))
       => DistinctOrders(state'.tasks)]_vars

\* every task of the collection with the id x is archived
AllArchived(tasks, x) ==
  \A i \in 1..Len(tasks) : tasks[i].id = x => tasks[i].archived

\* C23: no listener other than undo and reset takes the archived flag from a
\* task: a task that is archived before a create, update through the edit
\* form, toggleComplete, reorder, duplicate, tag, bulk listener, select-all
\* or import is archived after it, if it is still there.
C23_ArchivalMonotone ==
  [][lastOp'.op \notin {"undo", "reset"}
       => \A x \in IdSet(state.tasks) :
            AllArchived(state.tasks, x) => AllArchived(state'.tasks, x)]_vars

\* the edit form has been saved on an archived task, which is still archived
C23_Witness ==
  /\ lastOp.op = "update"
  /\ lastOp.ret = "task"
  /\ \E i \in 1..Len(pre.tasks) : pre.tasks[i].id = lastOp.id /\ pre.tasks[i].archived
  /\ \E i \in 1..Len(state.tasks) : state.tasks[i].id = lastOp.id /\ state.tasks[i].archived

\* no task of the AppState the JSON text encodes carries _selected
Unmarked(text) ==
  \A i \in 1..Len(Parse(text).tasks) : Parse(text).tasks[i].selected = "undefined"

\* C24: the marker _selected never reaches durable data: neither the text in
\* the slot nor any snapshot of the undo log holds a task that carries it.
C24_SelectionNotDurable ==
  /\ Unmarked(storage)
  /\ \A k \in 1..Len(undoStack) : Unmarked(undoStack[k])


====
